---- MODULE Spec2Model ----
(***************************************************************************)
(* Market-maker and ledger engine of the prediction-market bot             *)
(* (src/LMSR_v3.py, src/config.py).                                        *)
(*                                                                         *)
(* The bot is one asyncio process over one SQLite database.  A handler     *)
(* runs without interruption between two awaits, so each action below is   *)
(* the stretch of a handler between awaits.  The only handler that keeps   *)
(* a write transaction open across an await is check_expired_markets: its  *)
(* uncommitted writes live in scan.txn, the other connections read the     *)
(* committed tables, and their writes raise "database is locked" until     *)
(* the scanner's connection commits or is released.                        *)
(*                                                                         *)
(* REAL columns are fixed-point integers: points and shares in 1/UNIT,     *)
(* arguments and results of math.exp / math.log in 1/FP.                   *)
(***************************************************************************)
EXTENDS Integers, Sequences, FiniteSets

\* ------------------------------------------------------------------------
\* Bounds of the model
\* ------------------------------------------------------------------------
MaxMarkets == 1        \* rows of the markets table
MaxTime == 12          \* last clock value (hours)
MaxOps == 5            \* handler calls that write to the database in one behaviour
MaxTrades == 3         \* committed buys and sells in one behaviour
MaxProposals == 2      \* rows of the markets table where nothing is resolved
MaxClock == 24         \* last clock value (hours) where nothing is resolved

Users == {1, 2}
Vips == {2}          \* users with BYPASS_ROLE_ID or administrator permission
Sides == {"yes", "no"}

\* ------------------------------------------------------------------------
\* Number representation
\* ------------------------------------------------------------------------
UNIT == 100            \* a point / a share is UNIT integer units (0.01 = 1)
FP == 10000            \* resolution of exp / log arguments and results
LN2 == 6931            \* math.log(2) in 1/FP

\* ------------------------------------------------------------------------
\* src/config.py
\* ------------------------------------------------------------------------
LMSR_B == 300 * UNIT
TRADING_FEE_PCT == 5
PROPOSAL_COST == 100 * UNIT
STARTING_BALANCE == 1000 * UNIT
DAILY_REWARD == 100 * UNIT
AUTO_RESOLVE_ENABLED == TRUE
AUTO_RESOLVE_THRESHOLD == 70
min_duration == 6
max_duration == 168
proposal_cooldown_hours == 4
daily_cooldown_hours == 24

\* the clock advances by the shortest duration a market can have
TimeStep == min_duration

\* inputs the users type
BuyAmounts == {0, 600 * UNIT}       \* points
SellAmounts == {0, 600 * UNIT}      \* shares, 0 = "sell ALL"
Durations == {min_duration}         \* hours
DailyUsers == Users \ Vips          \* the users who call /daily

\* inputs of the account and proposal operations
ProposalDurations == {min_duration - 1, min_duration, max_duration + 1}
SpendAmounts == {STARTING_BALANCE - PROPOSAL_COST \div 2}
ClockSteps == {proposal_cooldown_hours, daily_cooldown_hours}

\* inputs of the pricing operations: accounts that can move the pools into
\* the clamped region of get_prob, and the amounts they stake
PriceBalances == {250000 * UNIT}
PriceAmounts == {90 * UNIT, 600 * UNIT, 115000 * UNIT}
PriceSells == {0}                   \* the form's default, "0 to sell ALL"

NULL == -1
EPS == UNIT \div 100                \* 0.01 share

Max(a, b) == IF a >= b THEN a ELSE b

\* ------------------------------------------------------------------------
\* LMSR math engine
\* ------------------------------------------------------------------------
RECURSIVE Halve(_, _)
Halve(v, k) == IF k = 0 \/ v = 0 THEN v ELSE Halve(v \div 2, k - 1)

\* math.exp(-x) for x >= 0: x and the result in 1/FP
ExpNeg(x) ==
  LET k == x \div LN2
      r == x % LN2
      t7 == FP - (r * FP) \div (7 * FP)
      t6 == FP - (r * t7) \div (6 * FP)
      t5 == FP - (r * t6) \div (5 * FP)
      t4 == FP - (r * t5) \div (4 * FP)
      t3 == FP - (r * t4) \div (3 * FP)
      t2 == FP - (r * t3) \div (2 * FP)
      t1 == FP - (r * t2) \div FP
  IN  Halve(t1, k)

RECURSIVE LogNorm(_, _)
LogNorm(y, k) == IF y < FP THEN LogNorm(2 * y, k - 1)
                 ELSE IF y >= 2 * FP THEN LogNorm(y \div 2, k + 1)
                 ELSE <<y, k>>

\* math.log(y) for y > 0: y and the result in 1/FP
Log(y) ==
  LET n == LogNorm(y, 0)
      m == n[1]
      k == n[2]
      z == ((m - FP) * FP) \div (m + FP)
      z2 == (z * z) \div FP
      s9 == FP \div 9
      s7 == FP \div 7 + (z2 * s9) \div FP
      s5 == FP \div 5 + (z2 * s7) \div FP
      s3 == FP \div 3 + (z2 * s5) \div FP
      s1 == FP + (z2 * s3) \div FP
  IN  k * LN2 + (2 * z * s1) \div FP

\* q / LMSR_B in 1/FP, and LMSR_B * x back in share units
ToFP(q) == q \div (LMSR_B \div FP)
FromFP(x) == x * (LMSR_B \div FP)

get_lmsr_cost(q1, q2) ==
  LET max_val == Max(q1, q2)
  IN  max_val + FromFP(Log(ExpNeg(ToFP(max_val - q1)) + ExpNeg(ToFP(max_val - q2))))

\* probability of YES in 1/FP  (GetProbClampsSwapped: the two overflow
\* clamps exchanged)
GetProbClampsSwapped(q_yes, q_no) ==
  LET diff == ToFP(q_no - q_yes)
  IN  IF diff > 100 * FP THEN FP
      ELSE IF diff < -100 * FP THEN 0
      ELSE IF diff >= 0
           THEN (FP * ExpNeg(diff)) \div (ExpNeg(diff) + FP)
           ELSE (FP * FP) \div (FP + ExpNeg(-diff))
get_prob(q_yes, q_no) ==
  LET diff == ToFP(q_no - q_yes)
  IN  IF diff > 100 * FP THEN 0
      ELSE IF diff < -100 * FP THEN FP
      ELSE IF diff >= 0
           THEN (FP * ExpNeg(diff)) \div (ExpNeg(diff) + FP)
           ELSE (FP * FP) \div (FP + ExpNeg(-diff))

\* math.exp raises OverflowError above ln(DBL_MAX) = 709.7827...
EXP_MAX == 7097827
ExpOverflows(x) == x > EXP_MAX

\* calculate_shares_out_lmsr raises: math.exp(term1) or math.exp(term2)
\* overflows (get_lmsr_cost only takes math.exp of arguments <= 0)
SharesOutRaises(q_target, q_other, amount_invested) ==
  LET amount_net == (amount_invested * (100 - TRADING_FEE_PCT)) \div 100
      new_cost == get_lmsr_cost(q_target, q_other) + amount_net
  IN  ExpOverflows(ToFP(new_cost)) \/ ExpOverflows(ToFP(q_other))

\* LMSR_B * ln(2): what the market maker can lose on one market
MAX_HOUSE_LOSS == FromFP(LN2)

\* <<shares_out, amount_net>>; exp(term1) - exp(term2) is taken relative to
\* exp(term1), so inner is its value divided by exp(term1)
calculate_shares_out_lmsr(q_target, q_other, amount_invested) ==
  LET amount_net == (amount_invested * (100 - TRADING_FEE_PCT)) \div 100
      current_cost == get_lmsr_cost(q_target, q_other)
      new_cost == current_cost + amount_net
      inner == FP - ExpNeg(ToFP(new_cost - q_other))
  IN  IF inner <= 0 THEN <<0, amount_net>>
      ELSE <<new_cost + FromFP(Log(inner)) - q_target, amount_net>>

\* the two ValueError guards of calculate_cash_out_lmsr
\* (CashOutNeverRaises: a pricing engine without them)
CashOutNeverRaises(q_target, shares_to_sell) == FALSE
CashOutRaises(q_target, shares_to_sell) ==
  shares_to_sell > q_target \/ shares_to_sell < 0

\* <<net_payout, fee, gross_payout>>  (CashOutFaceValue: shares paid out at
\* one point each, as a resolution pays the winners)
CashOutFaceValue(q_target, q_other, shares_to_sell) ==
  LET gross_payout == shares_to_sell
      fee == (gross_payout * TRADING_FEE_PCT) \div 100
  IN  <<gross_payout - fee, fee, gross_payout>>
calculate_cash_out_lmsr(q_target, q_other, shares_to_sell) ==
  LET current_cost == get_lmsr_cost(q_target, q_other)
      new_q_target == Max(0, q_target - shares_to_sell)
      new_cost == get_lmsr_cost(new_q_target, q_other)
      gross_payout == current_cost - new_cost
      fee == (gross_payout * TRADING_FEE_PCT) \div 100
  IN  <<gross_payout - fee, fee, gross_payout>>

\* ------------------------------------------------------------------------
\* State
\* ------------------------------------------------------------------------
VARIABLES
  now,            \* datetime.datetime.now(), in hours
  users,          \* table users
  markets,        \* table markets, market_id = index
  positions,      \* table positions
  price_history,  \* table price_history: (market_id, prob_yes) in insertion order
  approval,       \* ApprovalView of each market: buttons, captured amount, and
                  \* (history) what the proposal took from the creator's balance
  appeal,         \* AppealView of each market
  manual,         \* ManualResolveView of each market
  controls,       \* markets whose MarketControls were posted
  sellForm,       \* the SellModal option each user has open
  scan,           \* check_expired_markets: task, position, open transaction
  payouts,        \* history: the resolution credits made for each market
  last            \* the last handler call and its response

vars == <<now, users, markets, positions, price_history, approval, appeal,
          manual, controls, sellForm, scan, payouts, last>>

db == <<users, markets, positions, price_history, payouts>>
ui == <<approval, appeal, manual, controls, sellForm>>

MarketIds == 1..MaxMarkets
ProposalIds == 1..MaxProposals
ViewIds == MarketIds \cup ProposalIds

NoUser == [exists |-> FALSE, balance |-> 0, last_claim |-> NULL, last_proposal |-> NULL]
NewUser == [exists |-> TRUE, balance |-> STARTING_BALANCE, last_claim |-> NULL,
            last_proposal |-> NULL]
NoForm == [market_id |-> 0, position |-> "none", max_shares |-> 0]
NoTxn == [users |-> <<>>, markets |-> <<>>, positions |-> {}, payouts |-> <<>>]
NoPayout == [times |-> 0, first |-> 0, total |-> 0]
IdleScan == [pc |-> "idle", running |-> TRUE, expired |-> <<>>, idx |-> 0, txn |-> NoTxn]

\* the response of a handler call; seq counts the calls that wrote to the
\* database so far
Resp(op, mid, res, paid) ==
  [seq |-> last.seq, op |-> op, mid |-> mid, res |-> res, paid |-> paid]

\* the response of a call that committed a write
Done(op, mid, res, paid) ==
  [seq |-> last.seq + 1, op |-> op, mid |-> mid, res |-> res, paid |-> paid]

\* no response is waiting to be sent
Idle == last.op = "none"

MoreOps == Idle /\ last.seq < MaxOps

\* every market starts with one price point and every committed trade adds one
MoreTrades == Len(price_history) - Len(markets) < MaxTrades

Init ==
  /\ now = 0
  /\ users = [u \in Users |-> NoUser]
  /\ markets = <<>>
  /\ positions = {}
  /\ price_history = <<>>
  /\ approval = [m \in ViewIds |-> [st |-> "none", amount |-> 0, debited |-> 0]]
  /\ appeal = [m \in ViewIds |-> "none"]
  /\ manual = [m \in ViewIds |-> "none"]
  /\ controls = {}
  /\ sellForm = [u \in Users |-> NoForm]
  /\ scan = IdleScan
  /\ payouts = [m \in ViewIds |-> NoPayout]
  /\ last = [seq |-> 0, op |-> "none", mid |-> 0, res |-> "none", paid |-> 0]

\* another connection holds an open write transaction  (NeverLocked: a
\* database that admits a second writer)
NeverLocked == FALSE
DbLocked == scan.pc \in {"sending", "failed"}

\* a view whose buttons some client still shows enabled
Clickable(st) == st \in {"shown", "editing"}

\* ------------------------------------------------------------------------
\* User utilities
\* ------------------------------------------------------------------------
\* INSERT OR IGNORE, then UPDATE balance = balance + ?, in one transaction
\* (UpdateBalanceFromZero: an insert without the column default)
UpdateBalanceFromZero(us, user_id, amount) ==
  LET row == IF us[user_id].exists THEN us[user_id]
             ELSE [NewUser EXCEPT !.balance = 0]
  IN  [us EXCEPT ![user_id] = [row EXCEPT !.balance = @ + amount]]
update_balance(us, user_id, amount) ==
  LET row == IF us[user_id].exists THEN us[user_id] ELSE NewUser
  IN  [us EXCEPT ![user_id] = [row EXCEPT !.balance = @ + amount]]

\* the value get_balance returns
get_balance(us, user_id) ==
  IF us[user_id].exists THEN us[user_id].balance ELSE STARTING_BALANCE

\* UPDATE users SET balance = balance + ? WHERE user_id = ?  (no INSERT)
UpdateBalanceIfExists(us, user_id, amount) ==
  IF us[user_id].exists THEN [us EXCEPT ![user_id].balance = @ + amount] ELSE us

\* ------------------------------------------------------------------------
\* ProposeModal.on_submit
\* ------------------------------------------------------------------------
NewMarket(creator_id, closes_at) ==
  [creator_id |-> creator_id, created_at |-> now, closes_at |-> closes_at,
   status |-> "pending",
   result |-> "none", pool_yes |-> 0, pool_no |-> 0, fee_collected |-> 0]

\* a row of price_history  (HistoryPointUnowned: a point stored without its
\* market)
HistoryPointUnowned(market_id, prob_yes) ==
  [market_id |-> 0, prob_yes |-> prob_yes]
HistoryPoint(market_id, prob_yes) ==
  [market_id |-> market_id, prob_yes |-> prob_yes]

\* the three checks a non-privileged proposal must pass, in the code's order
ProposeRefusal(user_id, is_vip, duration_val) ==
  LET balance == get_balance(users, user_id)
      last_prop == users[user_id].last_proposal
  IN  IF is_vip THEN "ok"
      ELSE IF duration_val < min_duration \/ duration_val > max_duration
        THEN "BadDuration"
      ELSE IF last_prop # NULL /\ now - last_prop < proposal_cooldown_hours
        THEN "Cooldown"
      ELSE IF balance < PROPOSAL_COST THEN "InsufficientFunds"
      ELSE "ok"

\* UPDATE users SET balance = balance - ?, last_proposal = ? WHERE user_id = ?
ChargeProposal(us, user_id, cost) ==
  IF us[user_id].exists
    THEN [us EXCEPT ![user_id].balance = @ - cost, ![user_id].last_proposal = now]
    ELSE us

Propose(user_id, is_vip, duration_val, sendOk) ==
  LET refusal == ProposeRefusal(user_id, is_vip, duration_val)
      cost == IF is_vip THEN 0 ELSE PROPOSAL_COST
      mid == Len(markets) + 1
  IN  /\ MoreOps
      /\ IF refusal # "ok"
           THEN /\ last' = Resp("propose", 0, refusal, 0)
                /\ UNCHANGED <<now, db, ui, scan>>
         ELSE IF DbLocked
           THEN /\ last' = Resp("propose", 0, "Error", 0)
                /\ UNCHANGED <<now, db, ui, scan>>
         ELSE /\ users' = IF is_vip THEN users ELSE ChargeProposal(users, user_id, cost)
              /\ markets' = Append(markets, NewMarket(user_id, now + duration_val))
              /\ price_history' = Append(price_history, HistoryPoint(mid, FP \div 2))
              /\ approval' = IF sendOk
                               THEN [approval EXCEPT ![mid] =
                                       [st |-> "shown", amount |-> cost,
                                        debited |-> get_balance(users, user_id)
                                                    - get_balance(users', user_id)]]
                               ELSE approval
              /\ last' = Done("propose", mid, IF sendOk THEN "ok" ELSE "Error", 0)
              /\ UNCHANGED <<now, positions, appeal, manual, controls, sellForm, scan,
                             payouts>>

\* ------------------------------------------------------------------------
\* ApprovalView
\* ------------------------------------------------------------------------
\* an approval that does not read the status
ApproveAnyStatus(status) == TRUE
ApproveAllowed(status) == status = "pending"

Approve(market_id) ==
  /\ MoreOps
  /\ Clickable(approval[market_id].st)
  /\ IF ~ (market_id <= Len(markets) /\ ApproveAllowed(markets[market_id].status))
       THEN /\ last' = Resp("approve", market_id, "AlreadyProcessed", 0)
            /\ UNCHANGED <<now, db, ui, scan>>
     ELSE IF DbLocked
       THEN /\ last' = Resp("approve", market_id, "locked", 0)
            /\ UNCHANGED <<now, db, ui, scan>>
     ELSE /\ markets' = [markets EXCEPT ![market_id].status = "active"]
          /\ controls' = controls \cup {market_id}
          /\ approval' = [approval EXCEPT ![market_id].st = "editing"]
          /\ last' = Done("approve", market_id, "ok", 0)
          /\ UNCHANGED <<now, users, positions, price_history, appeal, manual,
                         sellForm, scan, payouts>>

\* deny updates the market and the creator without reading the status
Deny(market_id) ==
  /\ MoreOps
  /\ Clickable(approval[market_id].st)
  /\ IF DbLocked
       THEN /\ last' = Resp("reject", market_id, "locked", 0)
            /\ UNCHANGED <<now, db, ui, scan>>
     ELSE /\ markets' = [markets EXCEPT ![market_id].status = "rejected"]
          /\ users' = UpdateBalanceIfExists(users, markets[market_id].creator_id,
                                            approval[market_id].amount)
          /\ approval' = [approval EXCEPT ![market_id].st = "editing"]
          /\ last' = Done("reject", market_id, "ok", 0)
          /\ UNCHANGED <<now, positions, price_history, appeal, manual, controls,
                         sellForm, scan, payouts>>

\* interaction.response.edit_message with the disabled buttons reaches the clients
ApprovalEdited(market_id) ==
  /\ Idle
  /\ approval[market_id].st = "editing"
  /\ approval' = [approval EXCEPT ![market_id].st = "disabled"]
  /\ UNCHANGED <<now, db, appeal, manual, controls, sellForm, scan, payouts, last>>

\* ------------------------------------------------------------------------
\* BuyModal.on_submit
\* ------------------------------------------------------------------------
PosRows(ps, market_id, user_id, side) ==
  {p \in ps : p.market_id = market_id /\ p.user_id = user_id /\ p.position = side}

Pool(mk, side) == IF side = "yes" THEN mk.pool_yes ELSE mk.pool_no
Other(side) == IF side = "yes" THEN "no" ELSE "yes"

\* a buy that does not compare the balance with the amount
BuyFundsUnchecked(balance, amount) == TRUE
BuyFundsOk(balance, amount) == ~ (balance < amount)

\* a buy that does not read the market's status
BuyAnyStatus(status) == TRUE
BuyStatusOk(status) == status = "active"

\* the users table after a buy whose share computation failed: nothing was
\* written after get_balance  (FailedBuyDebited: update_balance moved before
\* the computation)
FailedBuyDebited(us, user_id, amount) == update_balance(us, user_id, 0 - amount)
AfterFailedBuy(us, user_id, amount) == update_balance(us, user_id, 0)

\* the position row after a buy: merged into the existing row or inserted
\* (BuyPositionsInsertOnly: a buy that inserts a row every time)
BuyPositionsInsertOnly(ps, market_id, user_id, side, shares, amount) ==
  ps \cup {[market_id |-> market_id, user_id |-> user_id, position |-> side,
            shares |-> shares, total_spent |-> amount]}
BuyPositions(ps, market_id, user_id, side, shares, amount) ==
  LET ex == PosRows(ps, market_id, user_id, side)
  IN  IF ex # {}
        THEN LET e == CHOOSE p \in ex : TRUE
             IN  (ps \ {e}) \cup {[e EXCEPT !.shares = @ + shares,
                                            !.total_spent = @ + amount]}
        ELSE ps \cup {[market_id |-> market_id, user_id |-> user_id, position |-> side,
                       shares |-> shares, total_spent |-> amount]}

Buy(user_id, market_id, side, amount) ==
  LET m == markets[market_id]
      out == calculate_shares_out_lmsr(Pool(m, side), Pool(m, Other(side)), amount)
      shares == out[1]
      fee_val == amount - out[2]
      new_py == IF side = "yes" THEN m.pool_yes + shares ELSE m.pool_yes
      new_pn == IF side = "yes" THEN m.pool_no ELSE m.pool_no + shares
      created == update_balance(users, user_id, 0)
  IN  /\ MoreOps
      /\ market_id \in controls
      /\ IF amount <= 0
           THEN /\ last' = Resp("buy", market_id, "InvalidAmount", 0)
                /\ UNCHANGED <<now, db, ui, scan>>
         ELSE IF DbLocked /\ ~ users[user_id].exists
           THEN /\ last' = Resp("buy", market_id, "locked", 0)
                /\ UNCHANGED <<now, db, ui, scan>>
         ELSE IF ~ BuyFundsOk(get_balance(users, user_id), amount)
           THEN /\ last' = Resp("buy", market_id, "InsufficientFunds", 0)
                /\ users' = created
                /\ UNCHANGED <<now, markets, positions, price_history, payouts, ui, scan>>
         ELSE IF ~ BuyStatusOk(m.status)
           THEN /\ last' = Resp("buy", market_id, "MarketNotActive", 0)
                /\ users' = created
                /\ UNCHANGED <<now, markets, positions, price_history, payouts, ui, scan>>
         ELSE IF m.closes_at < now
           THEN /\ last' = Resp("buy", market_id, "MarketExpired", 0)
                /\ users' = created
                /\ UNCHANGED <<now, markets, positions, price_history, payouts, ui, scan>>
         ELSE IF SharesOutRaises(Pool(m, side), Pool(m, Other(side)), amount)
           THEN /\ last' = Resp("buy", market_id, "Error", 0)
                /\ users' = AfterFailedBuy(users, user_id, amount)
                /\ UNCHANGED <<now, markets, positions, price_history, payouts, ui, scan>>
         ELSE IF shares <= 0
           THEN /\ last' = Resp("buy", market_id, "AmountTooSmall", 0)
                /\ users' = AfterFailedBuy(users, user_id, amount)
                /\ UNCHANGED <<now, markets, positions, price_history, payouts, ui, scan>>
         ELSE IF DbLocked
           THEN /\ last' = Resp("buy", market_id, "locked", 0)
                /\ UNCHANGED <<now, db, ui, scan>>
         ELSE /\ MoreTrades
              /\ users' = update_balance(users, user_id, -amount)
              /\ markets' = [markets EXCEPT ![market_id].pool_yes = new_py,
                                            ![market_id].pool_no = new_pn,
                                            ![market_id].fee_collected = @ + fee_val]
              /\ positions' = BuyPositions(positions, market_id, user_id, side, shares, amount)
              /\ price_history' = Append(price_history,
                                         HistoryPoint(market_id, get_prob(new_py, new_pn)))
              /\ last' = Done("buy", market_id, "ok", 0)
              /\ UNCHANGED <<now, payouts, ui, scan>>

\* ------------------------------------------------------------------------
\* MarketControls.sell_btn / SellSelect.callback: the form keeps the shares
\* that were read when it was built
\* ------------------------------------------------------------------------
OpenSellForm(user_id, market_id, side) ==
  LET rows == PosRows(positions, market_id, user_id, side)
  IN  /\ Idle
      /\ market_id \in controls
      /\ rows # {}
      /\ LET p == CHOOSE r \in rows : TRUE
         IN  /\ p.shares > EPS
             /\ sellForm' = [sellForm EXCEPT ![user_id] =
                               [market_id |-> market_id, position |-> side,
                                max_shares |-> p.shares]]
      /\ sellForm' # sellForm
      /\ UNCHANGED <<now, db, approval, appeal, manual, controls, scan, last>>

\* ------------------------------------------------------------------------
\* SellModal.on_submit
\* ------------------------------------------------------------------------
\* a sell that does not read the market's status
SellAnyStatus(status) == TRUE
SellStatusOk(status) == status \in {"active", "awaiting_resolution"}

\* the holding the sell is checked against and subtracted from
SellHolding(form, rows) == form.max_shares

\* the row is deleted when less than 0.01 share would remain
\* (SellNeverDeletes: a sell that always updates the row)
SellNeverDeletes(remaining) == FALSE
SellDeletes(remaining) == remaining < EPS

\* total_spent * (remaining / max_shares)
ScaleSpent(total_spent, remaining, max_shares) ==
  (total_spent * ((remaining * FP) \div max_shares)) \div FP

\* the ledger credit of a sell is committed by update_balance on its own
\* connection before the position row is looked up
SellCreditBeforeLookup(us, user_id, cash_out) == update_balance(us, user_id, cash_out)

SellSubmit(user_id, amount_shares) ==
  LET form == sellForm[user_id]
      market_id == form.market_id
      side == form.position
      m == markets[market_id]
      rows == PosRows(positions, market_id, user_id, side)
      holding == SellHolding(form, rows)
      shares_to_sell == IF amount_shares > 0 THEN amount_shares ELSE holding
      q_target == Pool(m, side)
      q_other == Pool(m, Other(side))
      out == calculate_cash_out_lmsr(q_target, q_other, shares_to_sell)
      cash_out == out[1]
      fee == out[2]
      new_yes == IF side = "yes" THEN m.pool_yes - shares_to_sell ELSE m.pool_yes
      new_no == IF side = "yes" THEN m.pool_no ELSE m.pool_no - shares_to_sell
      remaining == holding - shares_to_sell
  IN  /\ MoreOps
      /\ form # NoForm
      /\ IF ~ SellStatusOk(m.status)
           THEN /\ last' = Resp("sell", market_id, "MarketNotActive", 0)
                /\ UNCHANGED <<now, db, ui, scan>>
         ELSE IF m.status = "active" /\ m.closes_at < now
           THEN /\ last' = Resp("sell", market_id, "MarketExpired", 0)
                /\ UNCHANGED <<now, db, ui, scan>>
         ELSE IF shares_to_sell > holding
           THEN /\ last' = Resp("sell", market_id, "InsufficientShares", 0)
                /\ UNCHANGED <<now, db, ui, scan>>
         ELSE IF shares_to_sell < EPS
           THEN /\ last' = Resp("sell", market_id, "AmountTooSmall", 0)
                /\ UNCHANGED <<now, db, ui, scan>>
         ELSE IF CashOutRaises(q_target, shares_to_sell)
           THEN /\ last' = Resp("sell", market_id, "InvalidShareAmount", 0)
                /\ UNCHANGED <<now, db, ui, scan>>
         ELSE IF DbLocked
           THEN /\ last' = Resp("sell", market_id, "locked", 0)
                /\ UNCHANGED <<now, db, ui, scan>>
         ELSE IF rows = {}
           THEN /\ users' = SellCreditBeforeLookup(users, user_id, cash_out)
                /\ last' = Done("sell", market_id, "PositionNotFound", 0)
                /\ UNCHANGED <<now, markets, positions, price_history, payouts, ui, scan>>
         ELSE LET pos == CHOOSE r \in rows : TRUE
              IN  /\ MoreTrades
                  /\ users' = update_balance(users, user_id, cash_out)
                  /\ positions' =
                       IF SellDeletes(remaining) THEN positions \ {pos}
                       ELSE (positions \ {pos}) \cup
                            {[pos EXCEPT !.shares = remaining,
                                         !.total_spent =
                                            ScaleSpent(@, remaining, holding)]}
                  /\ markets' = [markets EXCEPT ![market_id].pool_yes = new_yes,
                                                ![market_id].pool_no = new_no,
                                                ![market_id].fee_collected = @ + fee]
                  /\ price_history' = Append(price_history,
                                             HistoryPoint(market_id, get_prob(new_yes, new_no)))
                  /\ last' = Done("sell", market_id, "ok", 0)
                  /\ UNCHANGED <<now, payouts, ui, scan>>

\* ------------------------------------------------------------------------
\* Resolution: /resolve, ManualResolveView.resolve_market and the payout loop
\* they share with check_expired_markets
\* ------------------------------------------------------------------------
Payout(shares) == (shares * (100 - TRADING_FEE_PCT)) \div 100

\* a payout loop that selects the positions of both sides
WinnersBothSides(ps, market_id, win) == {p \in ps : p.market_id = market_id}
Winners(ps, market_id, win) == {p \in ps : p.market_id = market_id /\ p.position = win}

RECURSIVE PayWinners(_, _)
PayWinners(us, rows) ==
  IF rows = {} THEN us
  ELSE LET p == CHOOSE r \in rows : TRUE
       IN  PayWinners(update_balance(us, p.user_id, Payout(p.shares)), rows \ {p})

RECURSIVE TotalPaid(_)
TotalPaid(rows) ==
  IF rows = {} THEN 0
  ELSE LET p == CHOOSE r \in rows : TRUE
       IN  Payout(p.shares) + TotalPaid(rows \ {p})

\* DELETE FROM positions WHERE market_id=?  (ClearMarketKeep: a resolution
\* that keeps the positions)
ClearMarketKeep(ps, market_id) == ps
ClearMarket(ps, market_id) == {p \in ps : p.market_id # market_id}

\* a resolve that does not read the status
ResolveAnyStatus(status) == TRUE
ResolveAllowed(status) == status \in {"active", "awaiting_resolution"}

\* the tables after the status write, the payout loop and the delete
\* payouts records them: how many payout loops ran for the market, the sum
\* the first one credited and the sum of all
\* (SettleStatusOnly: a settlement whose status write stands alone, the
\* payout loop and the delete not made with it)
SettleStatusOnly(t, market_id, status, win) ==
  [t EXCEPT !.markets[market_id].status = status, !.markets[market_id].result = win]
Settle(t, market_id, status, win) ==
  LET total_paid == TotalPaid(Winners(t.positions, market_id, win))
  IN  [users |-> PayWinners(t.users, Winners(t.positions, market_id, win)),
       markets |-> [t.markets EXCEPT ![market_id].status = status,
                                     ![market_id].result = win],
       positions |-> ClearMarket(t.positions, market_id),
       payouts |-> [t.payouts EXCEPT ![market_id] =
                      [times |-> @.times + 1,
                       first |-> IF @.times = 0 THEN total_paid ELSE @.first,
                       total |-> @.total + total_paid]]]

Committed ==
  [users |-> users, markets |-> markets, positions |-> positions, payouts |-> payouts]

ResolveCore(op, market_id, win) ==
  IF ~ (market_id <= Len(markets) /\ ResolveAllowed(markets[market_id].status))
    THEN /\ last' = Resp(op, market_id, "MarketNotActive", 0)
         /\ UNCHANGED <<users, markets, positions, payouts>>
  ELSE IF DbLocked
    THEN /\ last' = Resp(op, market_id, "locked", 0)
         /\ UNCHANGED <<users, markets, positions, payouts>>
  ELSE LET t == Settle(Committed, market_id, "closed", win)
       IN  /\ users' = t.users
           /\ markets' = t.markets
           /\ positions' = t.positions
           /\ payouts' = t.payouts
           /\ last' = Done(op, market_id, "ok",
                           TotalPaid(Winners(positions, market_id, win)))

\* the /resolve command: any market id can be typed
Resolve(market_id, win) ==
  /\ MoreOps
  /\ ResolveCore("resolve", market_id, win)
  /\ UNCHANGED <<now, price_history, ui, scan>>

ManualResolve(market_id, win) ==
  /\ MoreOps
  /\ Clickable(manual[market_id])
  /\ ResolveCore("resolve_btn", market_id, win)
  /\ manual' = IF last'.res = "ok" THEN [manual EXCEPT ![market_id] = "editing"]
               ELSE manual
  /\ UNCHANGED <<now, price_history, approval, appeal, controls, sellForm, scan>>

ManualEdited(market_id) ==
  /\ Idle
  /\ manual[market_id] = "editing"
  /\ manual' = [manual EXCEPT ![market_id] = "disabled"]
  /\ UNCHANGED <<now, db, approval, appeal, controls, sellForm, scan, last>>

\* ------------------------------------------------------------------------
\* AppealView: neither button reads the status
\* ------------------------------------------------------------------------
OverrideAllowed(status) == TRUE
ConfirmAllowed(status) == TRUE

AppealClick(op, market_id, allowed, status) ==
  /\ MoreOps
  /\ Clickable(appeal[market_id])
  /\ IF ~ (market_id <= Len(markets) /\ allowed)
       THEN /\ last' = Resp(op, market_id, "Refused", 0)
            /\ UNCHANGED <<now, db, ui, scan>>
     ELSE IF DbLocked
       THEN /\ last' = Resp(op, market_id, "locked", 0)
            /\ UNCHANGED <<now, db, ui, scan>>
     ELSE /\ markets' = [markets EXCEPT ![market_id].status = status]
          /\ appeal' = [appeal EXCEPT ![market_id] = "editing"]
          /\ last' = Done(op, market_id, "ok", 0)
          /\ UNCHANGED <<now, users, positions, price_history, payouts, approval,
                         manual, controls, sellForm, scan>>

Override(market_id) ==
  AppealClick("override", market_id,
              OverrideAllowed(markets[market_id].status), "awaiting_resolution")

Confirm(market_id) ==
  AppealClick("confirm", market_id, ConfirmAllowed(markets[market_id].status), "closed")

AppealEdited(market_id) ==
  /\ Idle
  /\ appeal[market_id] = "editing"
  /\ appeal' = [appeal EXCEPT ![market_id] = "disabled"]
  /\ UNCHANGED <<now, db, approval, manual, controls, sellForm, scan, payouts, last>>

\* ------------------------------------------------------------------------
\* check_expired_markets
\* ------------------------------------------------------------------------
RECURSIVE ExpiredFrom(_)
\* SELECT market_id ... WHERE status='active' AND closes_at <= now, by rowid
ExpiredFrom(i) ==
  IF i > Len(markets) THEN <<>>
  ELSE IF markets[i].status = "active" /\ markets[i].closes_at <= now
    THEN <<i>> \o ExpiredFrom(i + 1)
  ELSE ExpiredFrom(i + 1)

\* "yes", "no" or "none" from the pools read by the SELECT
\* (PredictedMajority: a scan that predicts the side with the higher price,
\* whatever the margin)
PredictedMajority(pool_yes, pool_no) ==
  IF get_prob(pool_yes, pool_no) * 2 >= FP THEN "yes" ELSE "no"
PredictedWinner(pool_yes, pool_no) ==
  LET prob_yes == get_prob(pool_yes, pool_no) * 100
  IN  IF prob_yes >= AUTO_RESOLVE_THRESHOLD * FP THEN "yes"
      ELSE IF prob_yes <= (100 - AUTO_RESOLVE_THRESHOLD) * FP THEN "no"
      ELSE "none"

\* the writes for one expired market, made inside the scanner's transaction
\* (ScanProcessSkip: a pass that writes nothing for the market)
ScanProcessSkip(t, market_id) == t
ScanProcess(t, market_id) ==
  LET m == markets[market_id]
      predicted_winner == PredictedWinner(m.pool_yes, m.pool_no)
  IN  IF AUTO_RESOLVE_ENABLED /\ predicted_winner # "none"
        THEN Settle(t, market_id, "auto_resolved", predicted_winner)
        ELSE [t EXCEPT !.markets[market_id].status = "awaiting_resolution"]

\* one pass up to the first await admin_channel.send
ScanBegin ==
  LET expired == ExpiredFrom(1)
  IN  /\ Idle
      /\ scan.pc = "idle"
      /\ scan.running
      /\ expired # <<>>
      /\ scan' = [pc |-> "sending", running |-> TRUE, expired |-> expired, idx |-> 1,
                  txn |-> ScanProcess(Committed, expired[1])]
      /\ UNCHANGED <<now, db, ui, last>>

\* the send returns: the view is posted, then the next market is processed or
\* the transaction commits
ScanSendOk ==
  LET mid == scan.expired[scan.idx]
      auto == scan.txn.markets[mid].status = "auto_resolved"
  IN  /\ Idle
      /\ scan.pc = "sending"
      /\ appeal' = IF auto THEN [appeal EXCEPT ![mid] = "shown"] ELSE appeal
      /\ manual' = IF auto THEN manual ELSE [manual EXCEPT ![mid] = "shown"]
      /\ IF scan.idx < Len(scan.expired)
           THEN /\ scan' = [scan EXCEPT !.idx = @ + 1,
                                        !.txn = ScanProcess(@, scan.expired[scan.idx + 1])]
                /\ UNCHANGED <<db, last>>
           ELSE /\ users' = scan.txn.users
                /\ markets' = scan.txn.markets
                /\ positions' = scan.txn.positions
                /\ payouts' = scan.txn.payouts
                /\ scan' = IdleScan
                /\ UNCHANGED <<price_history, last>>
      /\ UNCHANGED <<now, approval, controls, sellForm>>

\* the send raises: the pass ends without commit; tasks.loop retries it after
\* a connection error and stops after any other exception
ScanSendFail(retry) ==
  /\ Idle
  /\ scan.pc = "sending"
  /\ scan' = [scan EXCEPT !.pc = "failed", !.running = retry]
  /\ UNCHANGED <<now, db, ui, last>>

\* the failed pass's connection is released: its transaction is rolled back
ScanRollback ==
  /\ Idle
  /\ scan.pc = "failed"
  /\ scan' = [IdleScan EXCEPT !.running = scan.running]
  /\ UNCHANGED <<now, db, ui, last>>

\* on_ready restarts the loop when it is not running
OnReady ==
  /\ Idle
  /\ scan.pc = "idle"
  /\ ~ scan.running
  /\ scan' = [scan EXCEPT !.running = TRUE]
  /\ UNCHANGED <<now, db, ui, last>>

\* ------------------------------------------------------------------------
\* /daily
\* ------------------------------------------------------------------------
\* a /daily without cooldown
DailyAlways(last_claim) == TRUE
DailyAllowed(last_claim) ==
  ~ (last_claim # NULL /\ now - last_claim < daily_cooldown_hours)

Daily(user_id) ==
  /\ MoreOps
  /\ IF ~ DailyAllowed(users[user_id].last_claim)
       THEN /\ last' = Resp("daily", 0, "Cooldown", 0)
            /\ UNCHANGED users
     ELSE IF DbLocked
       THEN /\ last' = Resp("daily", 0, "locked", 0)
            /\ UNCHANGED users
     ELSE /\ users' = [update_balance(users, user_id, DAILY_REWARD)
                         EXCEPT ![user_id].last_claim = now]
          /\ last' = Done("daily", 0, "ok", 0)
  /\ UNCHANGED <<now, markets, positions, price_history, payouts, ui, scan>>

\* ------------------------------------------------------------------------
\* /balance
\* ------------------------------------------------------------------------
\* the users table get_balance leaves: an absent row is inserted through
\* update_balance(user_id, 0)  (GetBalanceReadOnly: a get_balance that
\* creates no row)
GetBalanceReadOnly(us, user_id) == us
AfterGetBalance(us, user_id) ==
  IF us[user_id].exists THEN us ELSE update_balance(us, user_id, 0)

\* the response carries the caller in the field mid and the returned balance
\* in the field paid
Balance(user_id) ==
  /\ Idle
  /\ IF users[user_id].exists
       THEN /\ last' = Resp("balance", user_id, "ok", get_balance(users, user_id))
            /\ UNCHANGED users
     ELSE IF DbLocked
       THEN /\ last' = Resp("balance", user_id, "locked", 0)
            /\ UNCHANGED users
     ELSE /\ MoreOps
          /\ users' = AfterGetBalance(users, user_id)
          /\ last' = Done("balance", user_id, "ok", get_balance(users, user_id))
  /\ UNCHANGED <<now, markets, positions, price_history, payouts, ui, scan>>

\* get_market_embed: the probability shown for the stored pools (the embed
\* shows it as a percentage); the response carries it in the field paid
Embed(market_id) ==
  /\ Idle
  /\ market_id <= Len(markets)
  /\ last' = Resp("embed", market_id, "ok",
                  get_prob(markets[market_id].pool_yes, markets[market_id].pool_no))
  /\ UNCHANGED <<now, db, ui, scan>>

\* await interaction.response.send_message / edit_message: the response of
\* the call is sent
Deliver ==
  /\ ~ Idle
  /\ last' = [seq |-> last.seq, op |-> "none", mid |-> 0, res |-> "none", paid |-> 0]
  /\ UNCHANGED <<now, db, ui, scan>>

Tick ==
  /\ Idle
  /\ now + TimeStep <= MaxTime
  /\ now' = now + TimeStep
  /\ UNCHANGED <<db, ui, scan, last>>

\* time passes by one of the two cooldowns
Pass(hours) ==
  /\ Idle
  /\ now + hours <= MaxClock
  /\ now' = now + hours
  /\ UNCHANGED <<db, ui, scan, last>>

Next ==
  \/ Tick
  \/ Deliver
  \/ /\ Len(markets) < MaxMarkets
     /\ \E u \in Users, d \in Durations : Propose(u, u \in Vips, d, TRUE)
  \/ \E m \in MarketIds : Approve(m)
  \/ \E m \in MarketIds : Deny(m)
  \/ \E m \in MarketIds : ApprovalEdited(m)
  \/ \E u \in Users, m \in MarketIds, s \in Sides, a \in BuyAmounts : Buy(u, m, s, a)
  \/ \E u \in Users, m \in MarketIds, s \in Sides : OpenSellForm(u, m, s)
  \/ \E u \in Users, a \in SellAmounts : SellSubmit(u, a)
  \/ \E m \in MarketIds, w \in Sides : Resolve(m, w)
  \/ \E m \in MarketIds, w \in Sides : ManualResolve(m, w)
  \/ \E m \in MarketIds : ManualEdited(m)
  \/ \E m \in MarketIds : Override(m)
  \/ \E m \in MarketIds : Confirm(m)
  \/ \E m \in MarketIds : AppealEdited(m)
  \/ ScanBegin
  \/ ScanSendOk
  \/ \E u \in DailyUsers : Daily(u)

Spec == Init /\ [][Next]_vars

\* the same system when the scanner's notification can fail
NextScanFail ==
  \/ Next
  \/ \E r \in BOOLEAN : ScanSendFail(r)
  \/ ScanRollback
  \/ OnReady

SpecScanFail == Init /\ [][NextScanFail]_vars

\* proposals and expiry when a notification to the admin channel can fail:
\* no trading, so every expired market goes to awaiting_resolution
NextOutage ==
  \/ Tick
  \/ Deliver
  \/ /\ Len(markets) < MaxProposals
     /\ \E u \in Users, d \in Durations, ok \in BOOLEAN : Propose(u, u \in Vips, d, ok)
  \/ \E m \in ProposalIds : Approve(m)
  \/ \E m \in ProposalIds : Deny(m)
  \/ \E m \in ProposalIds : ApprovalEdited(m)
  \/ \E u \in DailyUsers : Daily(u)
  \/ ScanBegin
  \/ ScanSendOk
  \/ \E r \in BOOLEAN : ScanSendFail(r)
  \/ ScanRollback
  \/ OnReady

SpecOutage == Init /\ [][NextOutage]_vars

\* proposals of every duration, with buys that spend nearly the whole balance
NextProposals ==
  \/ Tick
  \/ Deliver
  \/ /\ Len(markets) < MaxProposals
     /\ \E u \in Users, d \in ProposalDurations : Propose(u, u \in Vips, d, TRUE)
  \/ \E m \in ProposalIds : Approve(m)
  \/ \E m \in ProposalIds : ApprovalEdited(m)
  \/ \E u \in Users, m \in ProposalIds, s \in Sides, a \in SpendAmounts : Buy(u, m, s, a)
  \/ \E u \in DailyUsers : Daily(u)

SpecProposals == Init /\ [][NextProposals]_vars

\* the accounts over a full daily cooldown: /balance, /daily, and proposals
\* with their refunds
NextAccounts ==
  \/ \E h \in ClockSteps : Pass(h)
  \/ Deliver
  \/ /\ Len(markets) < MaxProposals
     /\ \E u \in Users, d \in Durations : Propose(u, u \in Vips, d, TRUE)
  \/ \E m \in ProposalIds : Deny(m)
  \/ \E m \in ProposalIds : ApprovalEdited(m)
  \/ \E u \in Users : Daily(u)
  \/ \E u \in Users : Balance(u)

SpecAccounts == Init /\ [][NextAccounts]_vars

\* the pricing engine on pools built by large and small buys and by sells on
\* either side
InitPrice ==
  /\ now = 0
  /\ users \in [Users -> {[NewUser EXCEPT !.balance = b] : b \in PriceBalances}]
  /\ markets = <<>>
  /\ positions = {}
  /\ price_history = <<>>
  /\ approval = [m \in ViewIds |-> [st |-> "none", amount |-> 0, debited |-> 0]]
  /\ appeal = [m \in ViewIds |-> "none"]
  /\ manual = [m \in ViewIds |-> "none"]
  /\ controls = {}
  /\ sellForm = [u \in Users |-> NoForm]
  /\ scan = IdleScan
  /\ payouts = [m \in ViewIds |-> NoPayout]
  /\ last = [seq |-> 0, op |-> "none", mid |-> 0, res |-> "none", paid |-> 0]

NextPrice ==
  \/ Deliver
  \/ /\ Len(markets) < MaxMarkets
     /\ \E u \in Vips, d \in Durations : Propose(u, TRUE, d, TRUE)
  \/ \E m \in MarketIds : Approve(m)
  \/ \E m \in MarketIds : ApprovalEdited(m)
  \/ \E u \in Users, m \in MarketIds, s \in Sides, a \in PriceAmounts : Buy(u, m, s, a)
  \/ \E u \in Users, m \in MarketIds, s \in Sides : OpenSellForm(u, m, s)
  \/ \E u \in Users, a \in PriceSells : SellSubmit(u, a)
  \/ \E m \in MarketIds : Embed(m)

SpecPrice == InitPrice /\ [][NextPrice]_vars

\* one market from its approval to its resolution: the state after a free
\* proposal was approved, then trades and the /resolve command
InitHouse ==
  /\ now = 0
  /\ users = [u \in Users |-> NoUser]
  /\ markets = <<[NewMarket(CHOOSE v \in Vips : TRUE, min_duration)
                    EXCEPT !.status = "active"]>>
  /\ positions = {}
  /\ price_history = <<HistoryPoint(1, FP \div 2)>>
  /\ approval = [m \in ViewIds |-> [st |-> IF m = 1 THEN "disabled" ELSE "none",
                                     amount |-> 0, debited |-> 0]]
  /\ appeal = [m \in ViewIds |-> "none"]
  /\ manual = [m \in ViewIds |-> "none"]
  /\ controls = {1}
  /\ sellForm = [u \in Users |-> NoForm]
  /\ scan = IdleScan
  /\ payouts = [m \in ViewIds |-> NoPayout]
  /\ last = [seq |-> 0, op |-> "none", mid |-> 0, res |-> "none", paid |-> 0]

NextHouse ==
  \/ Deliver
  \/ \E u \in Users, s \in Sides, a \in BuyAmounts : Buy(u, 1, s, a)
  \/ \E u \in Users, s \in Sides : OpenSellForm(u, 1, s)
  \/ \E u \in Users, a \in SellAmounts : SellSubmit(u, a)
  \/ \E w \in Sides : Resolve(1, w)

SpecHouse == InitHouse /\ [][NextHouse]_vars

\* two approved markets whose approval messages are still being edited, up
\* to their expiry: buys, the scan pass, /resolve and the deny button
InitRace ==
  /\ now = 0
  /\ users = [u \in Users |-> NoUser]
  /\ markets = [m \in 1..2 |-> [NewMarket(CHOOSE v \in Vips : TRUE, min_duration)
                                  EXCEPT !.status = "active"]]
  /\ positions = {}
  /\ price_history = <<HistoryPoint(1, FP \div 2), HistoryPoint(2, FP \div 2)>>
  /\ approval = [m \in ViewIds |-> [st |-> IF m \in 1..2 THEN "editing" ELSE "none",
                                     amount |-> 0, debited |-> 0]]
  /\ appeal = [m \in ViewIds |-> "none"]
  /\ manual = [m \in ViewIds |-> "none"]
  /\ controls = {1, 2}
  /\ sellForm = [u \in Users |-> NoForm]
  /\ scan = IdleScan
  /\ payouts = [m \in ViewIds |-> NoPayout]
  /\ last = [seq |-> 0, op |-> "none", mid |-> 0, res |-> "none", paid |-> 0]

NextRace ==
  \/ Tick
  \/ Deliver
  \/ \E u \in Users, m \in 1..2, s \in Sides : Buy(u, m, s, 600 * UNIT)
  \/ \E m \in 1..2, w \in Sides : Resolve(m, w)
  \/ \E m \in 1..2 : Deny(m)
  \/ \E m \in 1..2 : ApprovalEdited(m)
  \/ ScanBegin
  \/ ScanSendOk

SpecRace == InitRace /\ [][NextRace]_vars

\* one approved market traded with buys of 600 points and sells of part of a
\* holding, from forms opened before or after other trades
PartSells == {300 * UNIT}

NextForms ==
  \/ Deliver
  \/ \E u \in Users, s \in Sides : Buy(u, 1, s, 600 * UNIT)
  \/ \E u \in Users, s \in Sides : OpenSellForm(u, 1, s)
  \/ \E u \in Users, a \in PartSells : SellSubmit(u, a)

SpecForms == InitHouse /\ [][NextForms]_vars

\* the scanner's schedule: tasks.loop starts a pass every minute whatever the
\* handlers do, every await of a pass and of a handler returns, and no send of
\* the pass fails.  A pass can start and go on only between two handlers'
\* responses, so the timer's persistence is strong fairness on its steps.
\* Two approved markets; the first one is traded.
NextLive ==
  \/ Tick
  \/ Deliver
  \/ \E u \in Users, s \in Sides : Buy(u, 1, s, 600 * UNIT)
  \/ \E m \in 1..2, w \in Sides : Resolve(m, w)
  \/ ScanBegin
  \/ ScanSendOk

ScannerFair == WF_vars(Deliver) /\ SF_vars(ScanBegin) /\ SF_vars(ScanSendOk)

SpecLive == InitRace /\ [][NextLive]_vars /\ ScannerFair

\* ------------------------------------------------------------------------
\* Properties
\* ------------------------------------------------------------------------
\* a step in which the handler op runs (its response becomes the pending one)
Handled(ops) == Idle /\ last'.op \in ops

Exists(market_id) == market_id <= Len(markets)

\* the balance the ledger reports for a user before and after the step
Bal(user_id) == get_balance(users, user_id)
BalAfter(user_id) == get_balance(users', user_id)
BalancesUnchanged == \A u \in Users : BalAfter(u) = Bal(u)

\* the fields of a market the lifecycle claims speak about
Core(m) == <<m.status, m.result, m.pool_yes, m.pool_no, m.fee_collected>>

ResolveOps == {"resolve", "resolve_btn"}

\* C1: in every reachable state every user's balance is >= 0.
C1_BalanceNonNegative == \A u \in Users : users[u].balance >= 0

\* C1 witness: a buy was refused for insufficient funds after an earlier buy
\* had debited the same account down to less than the amount.
C1_Witness ==
  /\ last.op = "buy" /\ last.res = "InsufficientFunds"
  /\ \E u \in Users : users[u].exists /\ users[u].balance < STARTING_BALANCE
                      /\ \E a \in BuyAmounts : users[u].balance < a

\* C2: every trade is all-or-nothing: in a buy or sell step the ledger, the
\* market's pools and fee, the position and the price history change
\* together or not at all.
C2_TradeAllOrNothing ==
  [][Handled({"buy", "sell"}) =>
       LET appended == price_history' # price_history
       IN  /\ (~ BalancesUnchanged) <=> appended
           /\ (markets' # markets) <=> appended
           /\ (positions' # positions) <=> appended]_vars

\* the requested shares of a sell and what the caller holds when it executes
Requested(user_id, amount_shares) ==
  IF amount_shares > 0 THEN amount_shares ELSE sellForm[user_id].max_shares

RECURSIVE SumShares(_)
SumShares(rows) ==
  IF rows = {} THEN 0
  ELSE LET p == CHOOSE r \in rows : TRUE IN p.shares + SumShares(rows \ {p})

Held(user_id) ==
  SumShares(PosRows(positions, sellForm[user_id].market_id, user_id,
                    sellForm[user_id].position))

Outstanding(user_id) ==
  Pool(markets[sellForm[user_id].market_id], sellForm[user_id].position)

\* C3: a sell that requests more shares than the caller holds when it
\* executes, or more than the pool's outstanding shares on that side, returns
\* an error and leaves balance, pools, fee total, positions and price history
\* unchanged.
C3_OversellRejected ==
  [][\A u \in Users, a \in SellAmounts :
       (SellSubmit(u, a) /\ (Requested(u, a) > Held(u) \/ Requested(u, a) > Outstanding(u)))
         => /\ last'.res # "ok"
            /\ BalancesUnchanged
            /\ UNCHANGED <<markets, positions, price_history>>]_vars

Edges ==
  {<<"pending", "active">>, <<"pending", "rejected">>,
   <<"active", "awaiting_resolution">>, <<"active", "auto_resolved">>,
   <<"active", "closed">>, <<"awaiting_resolution", "closed">>,
   <<"auto_resolved", "awaiting_resolution">>, <<"auto_resolved", "closed">>}

\* C4: every change of a market's status is one of the edges of the
\* lifecycle state machine.
C4_OnlyLifecycleEdges ==
  [][\A m \in 1..Len(markets) :
       markets'[m].status # markets[m].status
         => <<markets[m].status, markets'[m].status>> \in Edges]_vars

\* C5: once a market is closed or rejected, its status, result, qYes, qNo and
\* fee total never change again.
C5_TerminalImmutable ==
  [][\A m \in 1..Len(markets) :
       markets[m].status \in {"closed", "rejected"}
         => Core(markets'[m]) = Core(markets[m])]_vars

\* C6: resolve succeeds only from active or awaiting_resolution; on a missing
\* market or one in any other status it returns an error and changes no
\* status, result, balance or position.
C6_ResolveGuard ==
  [][Handled(ResolveOps) =>
       LET m == last'.mid
       IN  IF Exists(m) /\ markets[m].status \in {"active", "awaiting_resolution"}
             THEN last'.res \in {"ok", "locked"}
             ELSE /\ last'.res = "MarketNotActive"
                  /\ BalancesUnchanged
                  /\ UNCHANGED <<markets, positions>>]_vars

\* C6 witness: a second resolve of a market that is already closed was
\* refused.
C6_Witness ==
  /\ last.op \in ResolveOps /\ last.res = "MarketNotActive"
  /\ Exists(last.mid) /\ markets[last.mid].status = "closed"
  /\ markets[last.mid].result # "none"

RECURSIVE CreditDue(_, _)
\* shares * (1 - fee) summed over the rows of one user
CreditDue(rows, user_id) ==
  IF rows = {} THEN 0
  ELSE LET p == CHOOSE r \in rows : TRUE
       IN  (IF p.user_id = user_id THEN (p.shares * (100 - TRADING_FEE_PCT)) \div 100 ELSE 0)
           + CreditDue(rows \ {p}, user_id)

RECURSIVE SumOver(_, _)
SumOver(f, S) ==
  IF S = {} THEN 0
  ELSE LET x == CHOOSE y \in S : TRUE IN f[x] + SumOver(f, S \ {x})

C8_PayoutAtMostOnce ==
  \A m \in MarketIds : payouts[m].times > 0 => payouts[m].total <= payouts[m].first

\* C8 witness: a market whose first resolution paid winners has gone through
\* a second resolution.
C8_Witness == \E m \in MarketIds : payouts[m].times >= 2 /\ payouts[m].first > 0

\* C9: reject takes effect only on a pending market; on any other status it
\* returns AlreadyProcessed and changes neither the status nor any balance.
C9_RejectGuard ==
  [][Handled({"reject"}) =>
       LET m == last'.mid
       IN  markets[m].status # "pending"
             => /\ last'.res = "AlreadyProcessed"
                /\ BalancesUnchanged
                /\ markets' = markets]_vars

\* C10: approve takes effect only on a pending market, which becomes active;
\* on any other status it returns the already-processed error and leaves the
\* status unchanged.
C10_ApproveGuard ==
  [][Handled({"approve"}) =>
       LET m == last'.mid
       IN  IF Exists(m) /\ markets[m].status = "pending"
             THEN /\ last'.res \in {"ok", "locked"}
                  /\ last'.res = "ok" => markets'[m].status = "active"
                  /\ last'.res = "locked" => markets' = markets
             ELSE /\ last'.res = "AlreadyProcessed"
                  /\ markets' = markets]_vars

\* C10 witness: an approval arrived after the proposal had been rejected and
\* was refused.
C10_Witness ==
  /\ last.op = "approve" /\ last.res = "AlreadyProcessed"
  /\ markets[last.mid].status = "rejected"

\* C11: a buy commits only if its market exists with status active and a
\* close time not yet passed, the amount is positive and the buyer's balance
\* covers it; every other buy ends with an error and leaves the balances, the
\* pools and fee, the positions and the price history as they were, so no
\* buy takes effect on a market that is not active.
C11_BuyGuard ==
  [][Handled({"buy"}) =>
       LET m == last'.mid
           tradable == /\ Exists(m)
                       /\ markets[m].status = "active"
                       /\ markets[m].closes_at >= now
       IN  IF last'.res = "ok"
             THEN /\ tradable
                  /\ \E u \in Users :
                       /\ Bal(u) - BalAfter(u) > 0
                       /\ Bal(u) >= Bal(u) - BalAfter(u)
                       /\ \A v \in Users \ {u} : BalAfter(v) = Bal(v)
             ELSE /\ BalancesUnchanged
                  /\ UNCHANGED <<markets, positions, price_history>>]_vars

\* C11 witness: a buy on a market that had been resolved and closed was
\* refused as not active.
C11_Witness ==
  /\ last.op = "buy" /\ last.res = "MarketNotActive"
  /\ markets[last.mid].status = "closed"

\* C12: a sell changes the ledger, the pools, the positions or the price
\* history only if its market is active with a close time not yet passed, or
\* awaiting_resolution; on every other market the sell is rejected and
\* nothing changes.
C12_SellGuard ==
  [][Handled({"sell"}) =>
       LET m == markets[last'.mid]
           open == \/ m.status = "active" /\ m.closes_at >= now
                   \/ m.status = "awaiting_resolution"
       IN  IF open
             THEN last'.res \notin {"MarketNotActive", "MarketExpired"}
             ELSE /\ last'.res \in {"MarketNotActive", "MarketExpired"}
                  /\ BalancesUnchanged
                  /\ UNCHANGED <<users, markets, positions, price_history>>]_vars

\* C12 witness: a sell form opened while the market was trading was
\* submitted after the market had been auto-resolved, and was refused.
C12_Witness ==
  /\ last.op = "sell" /\ last.res = "MarketNotActive"
  /\ markets[last.mid].status = "auto_resolved"

\* the step in which a scan pass commits its transaction
ScanCommits == scan.pc = "sending" /\ scan'.pc = "idle"

PositionsOf(ps, market_id) == {p \in ps : p.market_id = market_id}

\* C13: every market a scan pass processes was active with closes_at <= now;
\* with probYes = price(qYes,qNo)*100 it becomes auto_resolved with result
\* yes if auto-resolution is enabled and probYes >= threshold, auto_resolved
\* with result no if enabled and probYes <= 100-threshold, and otherwise
\* awaiting_resolution with no result, no payout and its positions kept.
C13_ScanDecision ==
  [][ScanCommits =>
       \A i \in 1..Len(scan.expired) :
         LET m == scan.expired[i]
             prob_yes == get_prob(markets[m].pool_yes, markets[m].pool_no) * 100
         IN  /\ markets[m].status = "active"
             /\ markets[m].closes_at <= now
             /\ IF AUTO_RESOLVE_ENABLED /\ prob_yes >= AUTO_RESOLVE_THRESHOLD * FP
                  THEN /\ markets'[m].status = "auto_resolved"
                       /\ markets'[m].result = "yes"
                ELSE IF AUTO_RESOLVE_ENABLED
                        /\ prob_yes <= (100 - AUTO_RESOLVE_THRESHOLD) * FP
                  THEN /\ markets'[m].status = "auto_resolved"
                       /\ markets'[m].result = "no"
                ELSE /\ markets'[m].status = "awaiting_resolution"
                     /\ markets'[m].result = "none"
                     /\ payouts'[m] = payouts[m]
                     /\ PositionsOf(positions', m) = PositionsOf(positions, m)]_vars

\* C13 witness: a market that closed with qYes = qNo = 0 was moved by the scan
\* to awaiting_resolution, with no result, and its resolution buttons posted.
C13_Witness ==
  \E m \in 1..Len(markets) :
    /\ markets[m].pool_yes = 0 /\ markets[m].pool_no = 0
    /\ markets[m].status = "awaiting_resolution" /\ markets[m].result = "none"
    /\ manual[m] = "shown" /\ appeal[m] = "none"

\* the step that ends a scan pass whose notification raised
ScanPassFailed == scan.pc = "failed" /\ scan'.pc = "idle"

\* every expired market of the pass but the one whose notification raised
\* has left active when the pass ends
ScanOthersTransitioned ==
  \A j \in (1..Len(scan.expired)) \ {scan.idx} :
    markets'[scan.expired[j]].status # "active"

\* C14: within one scan pass each expired market's transition is
\* independent: when the notification of one market raises, every other
\* expired market of the pass is still transitioned, the transitions made
\* earlier in the pass are kept, and later scan passes still run.
C14_ScanIndependent ==
  [][ScanPassFailed => ScanOthersTransitioned /\ scan'.running]_vars

\* the creator of the market a successful proposal inserted
Creator == markets'[last'.mid].creator_id

\* C15: every successful proposal by a non-privileged creator decreases the
\* creator's balance by exactly PROPOSAL_COST and sets last_proposal to now,
\* also when the creator had no account record before the call; a privileged
\* creator's balance and last_proposal are left unchanged.
C15_ProposalCharge ==
  [][Handled({"propose"}) /\ last'.res = "ok" =>
       IF Creator \in Vips
         THEN /\ BalAfter(Creator) = Bal(Creator)
              /\ users'[Creator].last_proposal = users[Creator].last_proposal
         ELSE /\ BalAfter(Creator) = Bal(Creator) - PROPOSAL_COST
              /\ users'[Creator].last_proposal = now]_vars

ProposeRefusals == {"BadDuration", "Cooldown", "InsufficientFunds"}

\* the earlier markets of the creator of the market being inserted
EarlierBy(creator) == {m \in 1..Len(markets) : markets[m].creator_id = creator}

\* C16: a refused proposal creates no market and changes no balance and no
\* last_proposal; a non-privileged proposal succeeds only with a duration in
\* [min_duration, max_duration], outside the cooldown since last_proposal and
\* with a balance of at least PROPOSAL_COST, hence two successful proposals
\* of one non-privileged user are at least the cooldown apart.
C16_ProposeGuard ==
  [][Handled({"propose"}) =>
       /\ last'.res \in ProposeRefusals => UNCHANGED <<users, markets, price_history>>
       /\ last'.res = "ok" /\ Creator \notin Vips =>
            LET new == markets'[last'.mid]
                duration_val == new.closes_at - new.created_at
            IN  /\ duration_val >= min_duration /\ duration_val <= max_duration
                /\ Bal(Creator) >= PROPOSAL_COST
                /\ \A m \in EarlierBy(Creator) :
                     now - markets[m].created_at >= proposal_cooldown_hours]_vars

\* C17: when the notification to the moderators fails after the proposal
\* cost was debited, the debit is compensated within the same operation:
\* whenever a proposal returns an error, every balance equals the balance
\* before the call.
C17_FailedNoticeRefunded ==
  [][Handled({"propose"}) /\ last'.res = "Error" => BalancesUnchanged]_vars

\* C18: the amount reject refunds equals the amount that was actually
\* debited from the creator when the market was proposed, so that a proposal
\* followed by its rejection has a net effect of zero on the creator's
\* balance, whatever the creator did in between.
C18_RefundEqualsDebit ==
  [][Handled({"reject"}) /\ last'.res = "ok" /\ markets[last'.mid].status = "pending" =>
       LET creator == markets[last'.mid].creator_id
       IN  BalAfter(creator) - Bal(creator) = approval[last'.mid].debited]_vars

\* the other columns of the users table
Claims(us) == [u \in Users |-> us[u].last_claim]

\* C19: a daily claim succeeds only if the user never claimed or
\* now - last_claim >= cooldown; a successful claim credits exactly
\* DAILY_REWARD to the claimant and sets last_claim = now, a refused claim
\* changes nothing, and last_claim changes in no other step; hence two
\* successful claims of one user are at least the cooldown apart.
C19_DailyCooldown ==
  [][/\ Handled({"daily"}) =>
          IF last'.res = "ok"
            THEN \E u \in Users :
                   /\ users[u].last_claim = NULL
                        \/ now - users[u].last_claim >= daily_cooldown_hours
                   /\ BalAfter(u) = Bal(u) + DAILY_REWARD
                   /\ users'[u].last_claim = now
                   /\ \A v \in Users \ {u} : users'[v] = users[v]
            ELSE users' = users
      /\ Claims(users') # Claims(users) => Handled({"daily"})]_vars

\* C19 witness: a user has claimed, claimed again a full cooldown later, and
\* holds the starting balance plus two rewards.
C19_Witness ==
  \E u \in Users :
    /\ users[u].last_claim >= daily_cooldown_hours
    /\ users[u].balance = STARTING_BALANCE + 2 * DAILY_REWARD
    /\ last.op = "daily" /\ last.res = "ok"

\* C20: get_balance never changes the balance of an existing account; for an
\* absent user it creates the account with the starting balance and returns
\* that value; the state it leaves is one in which calling it again returns
\* the same value and changes nothing.
C20_GetBalanceIdempotent ==
  [][Handled({"balance"}) =>
       LET u == last'.mid
       IN  /\ UNCHANGED <<markets, positions, price_history>>
           /\ \A v \in Users \ {u} : users'[v] = users[v]
           /\ IF last'.res # "ok" THEN users' = users
              ELSE /\ users[u].exists =>
                        users'[u] = users[u] /\ last'.paid = users[u].balance
                   /\ ~ users[u].exists =>
                        users'[u] = NewUser /\ last'.paid = STARTING_BALANCE
                   /\ users'[u].exists /\ users'[u].balance = last'.paid]_vars

\* C20 witness: a user without an account asked for the balance, was answered
\* the starting balance and has an account with it, while the other account
\* holds a different balance.
C20_Witness ==
  /\ last.op = "balance" /\ last.res = "ok" /\ last.paid = STARTING_BALANCE
  /\ users[last.mid] = NewUser
  /\ \E v \in Users : users[v].exists /\ users[v].balance # STARTING_BALANCE

\* the step commits a buy or a sell / inserts a market
TradeCommits == Handled({"buy", "sell"}) /\ last'.res = "ok"
MarketCreated == Handled({"propose"}) /\ Len(markets') = Len(markets) + 1

\* the points of one market, in insertion order
RECURSIVE PointsOf(_, _)
PointsOf(ph, market_id) ==
  IF ph = <<>> THEN <<>>
  ELSE LET rest == PointsOf(Tail(ph), market_id)
       IN  IF Head(ph).market_id = market_id THEN <<Head(ph)>> \o rest ELSE rest

\* C21: the price history is append-only: market creation and each committed
\* buy or sell append exactly one point, of their own market; no other step
\* (a rejected or failed trade, approve, reject, resolve, appeal, scan)
\* appends one, and no step modifies or removes a point.
C21_HistoryAppendOnly ==
  [][LET n == Len(price_history)
     IN  /\ Len(price_history') \in {n, n + 1}
         /\ SubSeq(price_history', 1, n) = price_history
         /\ Len(price_history') = n + 1 <=> TradeCommits \/ MarketCreated
         /\ Len(price_history') = n + 1 =>
              price_history'[n + 1].market_id = last'.mid]_vars

\* C21 witness: a market with two committed trades and shares outstanding
\* was resolved, and its history still has exactly three points.
C21_Witness ==
  /\ last.op \in ResolveOps /\ last.res = "ok"
  /\ Len(PointsOf(price_history, last.mid)) = 3
  /\ markets[last.mid].pool_yes + markets[last.mid].pool_no > 0

\* the step commits a resolution made by a command or a button
ResolutionCommits == Handled(ResolveOps \cup {"override", "confirm"}) /\ last'.res = "ok"

\* C22: the mutations of a market's pools, fee total and status are
\* serialized: no trade and no resolution commits while a scan pass holds
\* uncommitted writes, and what the pass commits is computed from the
\* market as it is at the commit: the pools and the fee total are the
\* current ones and only a market that is still active changes status.
C22_MarketSerialized ==
  [][/\ TradeCommits \/ ResolutionCommits => scan.pc = "idle" /\ scan'.pc = "idle"
     /\ ScanCommits =>
          \A m \in 1..Len(markets) :
            /\ markets'[m].pool_yes = markets[m].pool_yes
            /\ markets'[m].pool_no = markets[m].pool_no
            /\ markets'[m].fee_collected = markets[m].fee_collected
            /\ markets'[m].status # markets[m].status => markets[m].status = "active"]_vars

\* C22 witness: a trade submitted on an active market while the scan was
\* resolving that market was refused with "database is locked".
C22_Witness ==
  /\ last.op \in {"buy", "sell"} /\ last.res = "locked"
  /\ scan.pc = "sending" /\ last.mid = scan.expired[scan.idx]
  /\ markets[last.mid].status = "active"

\* the credits and debits the handlers pass to update_balance
Deltas == {0 - PROPOSAL_COST, 0, DAILY_REWARD}

C24_PoolsNonNegative ==
  \A m \in 1..Len(markets) : markets[m].pool_yes >= 0 /\ markets[m].pool_no >= 0

\* C24 witness: a sell of more shares than the side has outstanding (from a
\* form opened before an earlier sell) was rejected by the pricing engine,
\* with shares of that side still outstanding.
C24_Witness ==
  /\ last.op = "sell" /\ last.res = "InvalidShareAmount"
  /\ \E u \in Users :
       /\ sellForm[u].market_id = last.mid
       /\ sellForm[u].max_shares > Pool(markets[last.mid], sellForm[u].position)
       /\ Pool(markets[last.mid], sellForm[u].position) > 0

Clamped(q_yes, q_no) ==
  ToFP(q_no - q_yes) > 100 * FP \/ ToFP(q_no - q_yes) < -100 * FP

BuyCommits == Handled({"buy"}) /\ last'.res = "ok"
SellCommits == Handled({"sell"}) /\ last'.res = "ok"

RECURSIVE Gains(_)
Gains(us) ==
  IF us = {} THEN 0
  ELSE LET u == CHOOSE v \in us : TRUE
       IN  (Bal(u) - STARTING_BALANCE) + Gains(us \ {u})

\* C28: once the market is resolved, the house's aggregate loss on it
\* (resolution payouts plus sell payouts minus the amounts paid in by the
\* buyers) is at most B * ln(2).
C28_HouseLossBounded ==
  markets[1].status = "closed" => Gains(Users) <= MAX_HOUSE_LOSS

\* C29: a committed sell of s shares leaves the seller's position with the
\* shares stored immediately before the commit minus s, deleted if that is
\* below 0.01, and the cost basis scaled by remaining / shares-before,
\* whatever the seller did between opening the form and submitting it.
C29_SellFromStoredShares ==
  [][SellCommits =>
       \E u \in Users, s \in Sides :
         LET mid == last'.mid
             sold == Pool(markets[mid], s) - Pool(markets'[mid], s)
             old == PosRows(positions, mid, u, s)
             new == PosRows(positions', mid, u, s)
             before == CHOOSE r \in old : TRUE
             remaining == before.shares - sold
         IN  /\ sold > 0
             /\ sellForm[u].market_id = mid /\ sellForm[u].position = s
             /\ old # {}
             /\ positions' \ new = positions \ old
             /\ new = IF remaining < EPS THEN {}
                      ELSE {[before EXCEPT !.shares = remaining,
                                           !.total_spent =
                                              ScaleSpent(@, remaining, before.shares)]}]_vars

\* C30: a committed buy of amountIn on side s changes exactly the buyer's
\* balance (-amountIn), the market's outstanding shares on side s (+sharesOut,
\* the other side unchanged), the market's fee total (+amountIn * fee), the
\* buyer's single position on (market, s) (shares +sharesOut, cost basis
\* +amountIn, created if absent) and the price history (+1 point at the new
\* price); the market's other fields, every other market, every other
\* balance and every other position are unchanged.
C30_BuyFrame ==
  [][BuyCommits =>
       \E u \in Users, s \in Sides :
         LET mid == last'.mid
             m == markets[mid]
             n == markets'[mid]
             amountIn == Bal(u) - BalAfter(u)
             sharesOut == calculate_shares_out_lmsr(Pool(m, s), Pool(m, Other(s)),
                                                    amountIn)[1]
             old == PosRows(positions, mid, u, s)
             new == PosRows(positions', mid, u, s)
             had == IF old = {} THEN [shares |-> 0, total_spent |-> 0]
                    ELSE CHOOSE r \in old : TRUE
         IN  /\ amountIn > 0 /\ sharesOut > 0
             /\ users'[u] = [(IF users[u].exists THEN users[u] ELSE NewUser)
                               EXCEPT !.balance = @ - amountIn]
             /\ \A v \in Users \ {u} : users'[v] = users[v]
             /\ Pool(n, s) = Pool(m, s) + sharesOut
             /\ Pool(n, Other(s)) = Pool(m, Other(s))
             /\ n.fee_collected = m.fee_collected + (amountIn * TRADING_FEE_PCT) \div 100
             /\ n = [m EXCEPT !.pool_yes = n.pool_yes, !.pool_no = n.pool_no,
                              !.fee_collected = n.fee_collected]
             /\ \A k \in 1..Len(markets) : k # mid => markets'[k] = markets[k]
             /\ Len(markets') = Len(markets)
             /\ new = {[market_id |-> mid, user_id |-> u, position |-> s,
                        shares |-> had.shares + sharesOut,
                        total_spent |-> had.total_spent + amountIn]}
             /\ positions' \ new = positions \ old
             /\ price_history' =
                  Append(price_history,
                         [market_id |-> mid, prob_yes |-> get_prob(n.pool_yes, n.pool_no)])
             /\ payouts' = payouts]_vars

\* C30 witness: a committed buy was merged into the position the buyer
\* already held on that side, whose cost basis now exceeds one stake.
C30_Witness ==
  /\ last.op = "buy" /\ last.res = "ok"
  /\ \E p \in positions :
       /\ p.market_id = last.mid
       /\ \A a \in BuyAmounts : p.total_spent > a
       /\ p.shares = Pool(markets[last.mid], p.position)

\* C31: a buy whose share computation raises, or yields sharesOut <= 0, is
\* refused as a failed trade and changes no state: no reported balance, no
\* row of the users table that existed, no market, position, price point or
\* payout record changes, the scanner and the views are as before and the
\* call does not count as a write, so the process serves the next operation
\* from the state it had; and no buy commits whose computation raises.
C31_FailedBuyNoChange ==
  [][/\ Handled({"buy"}) /\ last'.res \in {"Error", "AmountTooSmall"} =>
          /\ BalancesUnchanged
          /\ \A u \in Users : users[u].exists => users'[u] = users[u]
          /\ UNCHANGED <<now, markets, positions, price_history, payouts, ui, scan>>
          /\ last'.seq = last.seq
     /\ \A m \in 1..Len(markets), s \in Sides :
          /\ Handled({"buy"}) /\ last'.mid = m /\ last'.res = "ok"
          /\ Pool(markets'[m], s) # Pool(markets[m], s)
          => \E u \in Users :
               /\ Bal(u) > BalAfter(u)
               /\ ~ SharesOutRaises(Pool(markets[m], s), Pool(markets[m], Other(s)),
                                    Bal(u) - BalAfter(u))
               /\ Pool(markets'[m], s) > Pool(markets[m], s)]_vars

\* C31 witness: math.exp overflowed in a buy on a side already holding more
\* than 100000 shares: the buy was answered with the error, and the buyer's
\* funds would have covered it.
C31_Witness ==
  /\ last.op = "buy" /\ last.res = "Error"
  /\ \E s \in Sides : Pool(markets[last.mid], s) > 100000 * UNIT
  /\ \E u \in Users, a \in PriceAmounts :
       /\ get_balance(users, u) >= a
       /\ \E s \in Sides :
            SharesOutRaises(Pool(markets[last.mid], s),
                            Pool(markets[last.mid], Other(s)), a)

\* C32: an auto-resolution becomes visible as a whole: the step that shows a
\* market auto_resolved with result w also shows every holder of a w-side
\* position credited shares*(1-fee) and all positions of the market deleted;
\* no state shows an auto_resolved market with positions or without its
\* payout loop run, and none shows a market paid out and still active.
C32_AutoResolveAtomic ==
  [][\A m \in 1..Len(markets') :
       /\ markets'[m].status = "auto_resolved" =>
            /\ PositionsOf(positions', m) = {}
            /\ payouts'[m].times >= 1
       /\ payouts'[m].times >= 1 => markets'[m].status # "active"
       /\ /\ m <= Len(markets)
          /\ markets'[m].status = "auto_resolved"
          /\ markets[m].status # "auto_resolved"
          => LET w == markets'[m].result
                 won == {p \in positions : p.market_id = m /\ p.position = w}
             IN  /\ markets[m].status = "active"
                 /\ w \in Sides
                 /\ payouts'[m].times = payouts[m].times + 1
                 /\ \A u \in Users : CreditDue(won, u) > 0 =>
                      BalAfter(u) >= Bal(u) + CreditDue(won, u)]_vars

\* C32 witness: a scan pass has committed an auto-resolution that paid
\* winners: the market is auto_resolved, its payout is recorded and credited
\* and none of its positions is left.
C32_Witness ==
  \E m \in 1..Len(markets) :
    /\ markets[m].status = "auto_resolved" /\ markets[m].result \in Sides
    /\ scan.pc = "idle"
    /\ payouts[m].times = 1 /\ payouts[m].first > 0
    /\ PositionsOf(positions, m) = {}
    /\ \E u \in Users : users[u].exists /\ users[u].balance > STARTING_BALANCE - 600 * UNIT

\* C33: a scan pass changes the status of a market, and pays it, only if the
\* market is still active when the pass's writes take effect: from the
\* enumeration to the commit every enumerated market stays active, because a
\* /resolve or a deny submitted meanwhile is refused, so the pass neither
\* overwrites a resolution nor pays a market a second time.
C33_ScanWritesActiveOnly ==
  [][/\ scan'.pc = "sending" =>
          \A i \in 1..Len(scan'.expired) :
            /\ markets'[scan'.expired[i]].status = "active"
            /\ payouts'[scan'.expired[i]].times = 0
     /\ ScanCommits =>
          \A m \in 1..Len(markets) :
            markets'[m].status # markets[m].status \/ payouts'[m] # payouts[m]
              => /\ markets[m].status = "active"
                 /\ payouts[m].times = 0
                 /\ payouts'[m].times <= 1
                 /\ markets'[m].status \in {"auto_resolved", "awaiting_resolution"}
     /\ Handled({"resolve", "reject"}) /\ last'.res = "ok" => scan.pc = "idle"]_vars

\* C33 witness: while the pass was waiting on its notification for the first
\* of two expired markets, an administrator's /resolve (or deny) of the
\* second, not yet written by the pass, was refused with "database is
\* locked".
C33_Witness ==
  /\ scan.pc = "sending" /\ Len(scan.expired) = 2 /\ scan.idx = 1
  /\ last.op \in {"resolve", "reject"} /\ last.res = "locked"
  /\ last.mid = scan.expired[2]
  /\ markets[last.mid].status = "active"
  /\ scan.txn.markets[last.mid].status = "active"

\* C34: override and confirm take effect only on a market whose status is
\* auto_resolved (override, in addition, only within APPEAL_WINDOW_HOURS of
\* the auto-resolution); invoked on a market in any other status the click is
\* refused and the status stays as it was.
C34_AppealGuard ==
  [][\A m \in 1..Len(markets) :
       /\ Handled({"override", "confirm"}) /\ last'.mid = m
       /\ markets[m].status # "auto_resolved"
       => /\ last'.res # "ok"
          /\ markets'[m].status = markets[m].status]_vars

\* C35: a market closed with result r has paid holders of side r only, and
\* has paid all of them: every payout loop writes the side it pays as the
\* market's result, so a resolution that closes a market for which credits
\* were already made must close it with the side those credits went to, also
\* after an auto-resolution was overridden.
C35_ClosedPaidResultSide ==
  [][\A m \in 1..Len(markets) :
       /\ markets'[m].status = "closed" /\ markets'[m] # markets[m]
       /\ payouts[m].total > 0
       => markets'[m].result = markets[m].result]_vars

\* C37: positions exist only for markets that are open for trading or
\* awaiting judgment: no stored position references a market whose status is
\* pending, rejected, auto_resolved or closed.
C37_PositionsOnOpenMarkets ==
  \A p \in positions :
    markets[p.market_id].status \in {"active", "awaiting_resolution"}

\* C36: for every market and each side, the shares of all stored positions
\* on that side sum to no more than the market's outstanding shares on that
\* side, whatever buys and sells were made, including sells submitted from a
\* form that read the holding earlier.
C36_PositionsWithinPool ==
  \A m \in 1..Len(markets), s \in Sides :
    SumShares({p \in positions : p.market_id = m /\ p.position = s})
      <= Pool(markets[m], s)

\* C38: every market that is active with its close time passed eventually
\* leaves the active status, when passes keep being scheduled and no step of
\* a pass fails; a pass enumerates every active market whose close time has
\* passed when it starts, and when it completes none of them is active.
C38_ExpiredLeavesActive ==
  /\ \A m \in 1..2 :
       (markets[m].status = "active" /\ markets[m].closes_at <= now)
         ~> (markets[m].status # "active")
  /\ [][/\ scan.pc = "idle" /\ scan'.pc = "sending" =>
             \A m \in 1..Len(markets) :
               markets[m].status = "active" /\ markets[m].closes_at <= now
                 => \E i \in 1..Len(scan'.expired) : scan'.expired[i] = m
        /\ ScanCommits =>
             \A i \in 1..Len(scan.expired) :
               markets'[scan.expired[i]].status
                 \in {"auto_resolved", "awaiting_resolution"}]_vars

\* C38 witness: one pass has moved two expired markets out of active, the
\* traded one to auto_resolved and the other to awaiting_resolution.
C38_Witness ==
  /\ scan.pc = "idle"
  /\ \A m \in 1..2 : markets[m].closes_at <= now
  /\ \E m \in 1..2 :
       /\ markets[m].status = "auto_resolved" /\ appeal[m] = "shown"
       /\ markets[3 - m].status = "awaiting_resolution" /\ manual[3 - m] = "shown"

====
